---- MODULE Spec2Model ----
(***************************************************************************)
(* Model of the Pipedream action "Send Telegram PDF to TRMNL"             *)
(* (src/src/src.js): one invocation of run() is a chain of awaited calls  *)
(* (getFile, puppeteer.browser, newPage, setViewport, setContent,         *)
(* waitForFunction, screenshot, close, sendPhoto, getFile, POST), and the *)
(* page loaded into the browser runs the in-page script renderPDF()       *)
(* concurrently with the host's bounded wait.                             *)
(*                                                                         *)
(* Strings the code inspects character by character (the caption) are     *)
(* sequences of one-character strings. Optional JavaScript values are     *)
(* None (undefined) or Some(v). Non-integer numbers are exact rationals   *)
(* <<numerator, denominator>> with a positive denominator.                *)
(***************************************************************************)
EXTENDS Integers, Sequences, FiniteSets, TLC

None == <<>>
Some(v) == <<v>>

\* ------------------------------------------------------------------------
\* Bounds of the model
\* ------------------------------------------------------------------------

\* Longest digit string of a generated caption directive.
MaxDigits == 2
\* Largest page count a loaded document reports.
MaxPages == 2
\* Native page sizes of the pipeline are DimUnit * (1..MaxDim) points.
MaxDim == 3
\* Native page sizes of the scale calculator's own check: WideUnit * (1..MaxWide).
MaxWide == 20
\* Longest photo-size list a sendPhoto response carries.
MaxPhotos == 2
\* Points per unit of the native page sizes (pipeline, scale calculator).
DimUnit == 100
WideUnit == 37
\* Milliseconds between two looks at the clock during the bounded wait.
PollMs == 10000

\* ------------------------------------------------------------------------
\* Program constants
\* ------------------------------------------------------------------------

TELEGRAM_API_BASE == "https://api.telegram.org"
TRMNL_API_BASE == "https://usetrmnl.com/api"
FALLBACK_IMAGE == "https://http.cat/images/500.jpg"
PDF_MIME == "application/pdf"

ViewportWidth == 800
ViewportHeight == 480
DeviceScaleFactor == 2
maxWidth == 760
maxHeight == 440
\* baseScale = 2.5 and the cap 1.2, as exact rationals
baseScale == <<5, 2>>
scaleCap == <<6, 5>>
\* waitForFunction's timeout, in milliseconds
WaitTimeout == 30000

\* The messages thrown by the code itself.
MsgPermission == "You don't have permission to use this bot."
MsgNoPdf == "No PDF document found in the message. Please send a PDF file."
MsgNoPath == "Can't find the file path from Telegram."
MsgNoPhoto == "Failed to send photo to Telegram - no photo in response"
MsgNoImagePath == "Can't get file path from Telegram for uploaded image"

\* ------------------------------------------------------------------------
\* Characters
\* ------------------------------------------------------------------------

DigitChars == <<"0", "1", "2", "3", "4", "5", "6", "7", "8", "9">>
UpperChars == <<"A", "E", "G", "P", "S", "X">>
LowerChars == <<"a", "e", "g", "p", "s", "x">>

\* \d of a JavaScript regular expression
IsDigit(ch) == \E k \in 1..Len(DigitChars) : DigitChars[k] = ch

\* \s of a JavaScript regular expression (the white space this model writes)
IsSpace(ch) == ch \in {" ", "\t", "\n", "\r"}

DigitVal(ch) == (CHOOSE k \in 1..Len(DigitChars) : DigitChars[k] = ch) - 1

\* The /i flag: both sides are compared after case folding.
Fold(ch) ==
  IF \E k \in 1..Len(UpperChars) : UpperChars[k] = ch
  THEN LowerChars[CHOOSE k \in 1..Len(UpperChars) : UpperChars[k] = ch]
  ELSE ch

\* ------------------------------------------------------------------------
\* JavaScript truthiness of the optional values the code tests
\* ------------------------------------------------------------------------

\* An optional number: undefined and 0 are falsy.
TruthyNum(o) == o /= None /\ o[1] /= 0

\* An optional character sequence: undefined and "" are falsy.
TruthySeq(o) == o /= None /\ Len(o[1]) > 0

\* An optional string kept whole: undefined and "" are falsy.
TruthyStr(o) == o /= None /\ o[1] /= ""

\* ------------------------------------------------------------------------
\* parseCaption: caption.match(/\/page\s+(\d+)/i), then parseInt
\* ------------------------------------------------------------------------

\* The index after the longest run of characters satisfying \s (resp. \d)
\* that starts at index j.
RECURSIVE SpaceEnd(_, _)
SpaceEnd(c, j) == IF j <= Len(c) /\ IsSpace(c[j]) THEN SpaceEnd(c, j + 1) ELSE j

RECURSIVE DigitEnd(_, _)
DigitEnd(c, j) == IF j <= Len(c) /\ IsDigit(c[j]) THEN DigitEnd(c, j + 1) ELSE j

\* The literal part of the pattern, "/page", matched case-insensitively at i.
LiteralAt(c, i) ==
  /\ i + 4 <= Len(c)
  /\ c[i] = "/"
  /\ Fold(c[i + 1]) = "p"
  /\ Fold(c[i + 2]) = "a"
  /\ Fold(c[i + 3]) = "g"
  /\ Fold(c[i + 4]) = "e"

\* The whole pattern matches at i: literal, one or more \s, one or more \d.
\* \s+ and \d+ are greedy and their character classes are disjoint, so the
\* only match at i takes the longest runs.
MatchAt(c, i) ==
  /\ LiteralAt(c, i)
  /\ SpaceEnd(c, i + 5) > i + 5
  /\ DigitEnd(c, SpaceEnd(c, i + 5)) > SpaceEnd(c, i + 5)

\* Capture group 1 of the match at i.
Group1(c, i) ==
  SubSeq(c, SpaceEnd(c, i + 5), DigitEnd(c, SpaceEnd(c, i + 5)) - 1)

\* parseInt of a string of decimal digits.
RECURSIVE parseInt(_)
parseInt(ds) ==
  IF ds = <<>> THEN 0
  ELSE 10 * parseInt(SubSeq(ds, 1, Len(ds) - 1)) + DigitVal(ds[Len(ds)])

\* String.prototype.match without the g flag: the leftmost match, or null.
FirstMatch(c) ==
  IF \E i \in 1..Len(c) : MatchAt(c, i)
  THEN Some(CHOOSE i \in 1..Len(c) :
              MatchAt(c, i) /\ \A k \in 1..(i - 1) : ~MatchAt(c, k))
  ELSE None

\* A parser that forgets the i flag.
parseCaptionCaseSensitive(message) ==
  LET caption == IF TruthySeq(message.caption) THEN message.caption[1] ELSE <<>>
      hits == {i \in 1..Len(caption) :
                 MatchAt(caption, i) /\ SubSeq(caption, i, i + 4) = <<"/", "p", "a", "g", "e">>}
  IN  IF hits = {} THEN 1
      ELSE parseInt(Group1(caption, CHOOSE i \in hits : \A k \in hits : i <= k))

\* parseCaption(): the page number of the message's caption.
parseCaption(message) ==
  LET caption == IF TruthySeq(message.caption) THEN message.caption[1] ELSE <<>>
      pageCommandMatch == FirstMatch(caption)
  IN  IF pageCommandMatch /= None
      THEN parseInt(Group1(caption, pageCommandMatch[1]))
      ELSE 1

\* ------------------------------------------------------------------------
\* Rationals
\* ------------------------------------------------------------------------

RatOfInt(n) == <<n, 1>>
RatMul(a, b) == <<a[1] * b[1], a[2] * b[2]>>
RatDiv(a, b) == <<a[1] * b[2], a[2] * b[1]>>
RatLeq(a, b) == a[1] * b[2] <= b[1] * a[2]
RatEq(a, b) == a[1] * b[2] = b[1] * a[2]
RatMin(a, b) == IF RatLeq(a, b) THEN a ELSE b
RatFloor(a) == a[1] \div a[2]

\* ------------------------------------------------------------------------
\* The scale calculation of renderPDF (native is <<width, height>> at scale 1)
\* ------------------------------------------------------------------------

\* A calculation that forgets the cap of 1.2.
CalcScaleNoCap(native) ==
  LET scaleToFitWidth == RatDiv(RatOfInt(maxWidth), RatMul(RatOfInt(native[1]), baseScale))
      scaleToFitHeight == RatDiv(RatOfInt(maxHeight), RatMul(RatOfInt(native[2]), baseScale))
  IN  RatMul(RatMin(scaleToFitWidth, scaleToFitHeight), baseScale)

CalcScale(native) ==
  LET scaleToFitWidth == RatDiv(RatOfInt(maxWidth), RatMul(RatOfInt(native[1]), baseScale))
      scaleToFitHeight == RatDiv(RatOfInt(maxHeight), RatMul(RatOfInt(native[2]), baseScale))
  IN  RatMul(RatMin(RatMin(scaleToFitWidth, scaleToFitHeight), scaleCap), baseScale)

\* page.getViewport({scale}): the page's size at that scale.
ViewportAt(native, scale) ==
  <<RatMul(RatOfInt(native[1]), scale), RatMul(RatOfInt(native[2]), scale)>>

\* canvas.width / canvas.height are integers: the assigned number is truncated.
CanvasSize(native, scale) ==
  <<RatFloor(ViewportAt(native, scale)[1]), RatFloor(ViewportAt(native, scale)[2])>>

\* ------------------------------------------------------------------------
\* Values exchanged with the remote services
\* ------------------------------------------------------------------------

\* this.telegram_bot_api.$auth.token
Token == "TOKEN"

\* An error object: error.message and error.response?.data?.message.
Err(msg) == [message |-> msg, response_message |-> None]
NoError == Err("")
TypeErr == Err("TypeError: Cannot read properties of undefined")
TimeoutErr == Err("TimeoutError: Waiting failed: 30000ms exceeded")
BrowserErr == Err("Error: browser operation failed")

\* What the HTTP client rejects with: a non-2xx answer (whose body may carry
\* a message) or a transport failure.
AxiosErrors ==
  { [message |-> "Request failed with status code 500", response_message |-> Some("Internal Server Error")],
    [message |-> "Request failed with status code 404", response_message |-> None],
    [message |-> "Network Error", response_message |-> None] }

\* The outcomes of one awaited HTTP call: the body of a 2xx answer, or a rejection.
AxiosOutcomes(bodies) ==
  {[ok |-> TRUE, error |-> NoError, body |-> b] : b \in bodies}
    \cup {[ok |-> FALSE, error |-> e, body |-> None] : e \in AxiosErrors}

\* The file path the platform keeps for a file id (a sequence of string pieces).
FilePath(file_id) == <<"files/", file_id>>

\* The bodies getFile may answer with for a file id: no body, no result,
\* a result without file_path, a result with the file's path.
GetFileBodies(file_id) ==
  { None,
    Some([result |-> None]),
    Some([result |-> Some([file_path |-> None])]),
    Some([result |-> Some([file_path |-> Some(FilePath(file_id))])]) }

\* fileInfo.result?.file_path of a body that is not undefined
FilePathOf(body) ==
  IF body[1].result = None THEN None ELSE body[1].result[1].file_path

PhotoIds == <<"photo_s", "photo_m", "photo_l", "photo_xl">>
PhotoList(n) == [k \in 1..n |-> [file_id |-> PhotoIds[k]]]

\* The bodies sendPhoto may answer with.
SendPhotoBodies ==
  { None,
    Some([result |-> None]),
    Some([result |-> Some([photo |-> None])]) }
    \cup {Some([result |-> Some([photo |-> Some(PhotoList(n))])]) : n \in 0..MaxPhotos}

\* String.prototype.trim on a string kept as a sequence of pieces: leading and
\* trailing white-space pieces are dropped.
RECURSIVE TrimEnd(_)
TrimEnd(u) == IF u /= <<>> /\ IsSpace(u[Len(u)]) THEN TrimEnd(SubSeq(u, 1, Len(u) - 1)) ELSE u

RECURSIVE TrimStart(_)
TrimStart(u) == IF u /= <<>> /\ IsSpace(u[1]) THEN TrimStart(Tail(u)) ELSE u

Trim(u) == TrimStart(TrimEnd(u))

\* `${TELEGRAM_API_BASE}/file/bot${token}/${filePath}`
FileUrl(filePath) == <<TELEGRAM_API_BASE, "/file/bot", Token, "/">> \o filePath

FallbackUrl == <<FALLBACK_IMAGE>>

\* A URL is empty when every piece of it is the empty string.
UrlNonEmpty(u) == \E k \in 1..Len(u) : u[k] /= ""

\* A payload that announces the image as a document.
PayloadAsPdf(imageUrl) == [merge_variables |-> [image_url |-> imageUrl, file_type |-> "pdf"]]

\* The payload sendToTrmnl posts.
Payload(imageUrl) == [merge_variables |-> [image_url |-> imageUrl, file_type |-> "image"]]

\* The body a 2xx answer of the webhook carries.
TrmnlBodies == { Some([status |-> "ok"]) }

\* errorMessage of run's catch block
ErrorMessage(e) == IF TruthyStr(e.response_message) THEN e.response_message[1] ELSE e.message

\* A catch block that reports the invocation as failed.
ErrorResultUnsuccessful(e) ==
  [ success |-> FALSE,
    error |-> Some([message |-> ErrorMessage(e), timestamp |-> "now"]),
    shouldNotify |-> Some(TRUE),
    sent_payload |-> None,
    response_from_trmnl |-> None,
    image_url |-> None ]

\* The object run returns from its catch block.
ErrorResult(e) ==
  [ success |-> TRUE,
    error |-> Some([message |-> ErrorMessage(e), timestamp |-> "now"]),
    shouldNotify |-> Some(TRUE),
    sent_payload |-> None,
    response_from_trmnl |-> None,
    image_url |-> None ]

\* The object run returns at the end of its try block.
SuccessResult(payload, response, imageUrl) ==
  [ success |-> TRUE,
    error |-> None,
    shouldNotify |-> None,
    sent_payload |-> Some(payload),
    response_from_trmnl |-> Some(response),
    image_url |-> Some(imageUrl) ]

\* $.export("$summary", ...)
ErrorSummary(e) == [kind |-> "error", page |-> 0, message |-> ErrorMessage(e)]
SuccessSummary(n) == [kind |-> "success", page |-> n, message |-> ""]

\* ------------------------------------------------------------------------
\* The page's container element
\* ------------------------------------------------------------------------

Content(kind, page, pages, size) ==
  [kind |-> kind, page |-> page, numPages |-> pages, width |-> size[1], height |-> size[2]]

NoContent == Content("none", 0, 0, <<0, 0>>)
\* <div class="loading">Loading PDF page N...</div>
LoadingNotice(n) == Content("loading", n, 0, <<0, 0>>)
\* 'Page N not found. PDF has K pages.'
NotFoundNotice(n, k) == Content("notfound", n, k, <<0, 0>>)
\* 'Error loading PDF: ' + error.message
ErrorNotice(n) == Content("error", n, 0, <<0, 0>>)
\* the canvas the page was drawn on
Canvas(n, k, size) == Content("canvas", n, k, size)

NoViewport == [width |-> 0, height |-> 0, deviceScaleFactor |-> 0]

\* A screenshot taken at one device pixel per CSS pixel.
CaptureCssPixels(content, vp) ==
  [content |-> content, width |-> vp.width, height |-> vp.height]

\* page.screenshot({type: 'png', fullPage: false}): the viewport's pixels.
Capture(content, vp) ==
  [ content |-> content,
    width |-> vp.width * vp.deviceScaleFactor,
    height |-> vp.height * vp.deviceScaleFactor ]

\* ------------------------------------------------------------------------
\* State
\* ------------------------------------------------------------------------

\* The invocations of run() the model can hold. Every variable but live is a
\* function on Inv; an invocation outside live never starts.
Inv == {1, 2}

VARIABLES
  live,        \* the invocations that run
  props,       \* this.filter_user_id, this.plugin_url, this.message
  artifact,    \* the object sendToTrmnl is called with, when called on its own
  pc,          \* the await run() is suspended at
  calls,       \* the remote calls issued so far, in order
  faults,      \* the failures and abnormal answers met so far
  pdfUrl,      \* run's pdfUrl
  pageNumber,  \* run's pageNumber
  ctx,         \* the browsers of convertPdfPageToImage: none, open, closed
  viewport,    \* the page's viewport
  elapsed,     \* milliseconds waitForFunction has waited
  frame,       \* imageBuffer
  pending,     \* what the try block of convertPdfPageToImage ended with
  imageUrl,    \* run's imageUrl
  posted,      \* the payloads posted to the webhook
  result,      \* the object run returned
  summary,     \* the exported $summary
  script,      \* the position of the in-page renderPDF()
  signal,      \* window.pdfRendered
  container,   \* the content of the page's container element
  numPages,    \* pdf.numPages, 0 until the document is loaded
  native,      \* the page's viewport at scale 1
  finalScale   \* renderPDF's finalScale

inputVars == <<live, props, artifact>>
hostVars == <<pc, calls, faults, pdfUrl, pageNumber, ctx, viewport, elapsed, frame,
              pending, imageUrl, posted, result, summary>>
pageVars == <<script, signal, container, numPages, native, finalScale>>
vars == <<inputVars, hostVars, pageVars>>

\* One browser, launched once and used by every invocation.
BrowserShared(i) == 1

\* const browser = await puppeteer.browser(): every call launches a browser
\* of its own, held by a local of the invocation; ctx is indexed by browser.
Browser(i) == i

Call(op, arg) == [op |-> op, arg |-> arg]

\* How many calls of one kind were issued.
Count(log, op) == Cardinality({k \in 1..Len(log) : log[k].op = op})

NoPending == [kind |-> "none", error |-> NoError]

\* ------------------------------------------------------------------------
\* Inputs
\* ------------------------------------------------------------------------

\* Captions of the pipeline: absent, without directive, pages 2, 9 and 0.
PipelineCaptions ==
  { None,
    Some(<<"h", "i">>),
    Some(<<"/", "p", "a", "g", "e", " ", "2">>),
    Some(<<"/", "P", "A", "G", "E", " ", "9">>),
    Some(<<"/", "p", "a", "g", "e", " ", "0">>) }

\* message.document: absent, a PDF, another kind of file.
Documents ==
  { None,
    Some([mime_type |-> PDF_MIME, file_id |-> "doc"]),
    Some([mime_type |-> "image/png", file_id |-> "doc"]) }

\* message.from: absent (a channel post) or a user.
Senders == { None, Some([id |-> 111]), Some([id |-> 222]) }

\* filter_user_id: left empty, or a user id.
Filters == { None, Some(111) }

Messages(captions) ==
  [from : Senders, chat : {[id |-> 7]}, document : Documents, caption : captions]

Props(captions) ==
  [filter_user_id : Filters, plugin_url : {"PLUGIN"}, message : Messages(captions)]

IdleProps ==
  [ filter_user_id |-> None, plugin_url |-> "PLUGIN",
    message |-> [from |-> None, chat |-> [id |-> 7], document |-> None, caption |-> None] ]

\* The destructured parameter of sendToTrmnl($, {imageUrl}): an object whose
\* properties may be absent. A rendered image is forwarded as imageUrl; a
\* document is forwarded as fileUrl with the page number.
Artifact(image, file, page) == [imageUrl |-> image, fileUrl |-> file, pageNumber |-> page]
NoArtifact == Artifact(None, None, None)

\* The state before run() is called, but for live and props.
InitRest ==
  /\ artifact = [i \in Inv |-> NoArtifact]
  /\ pc = [i \in Inv |-> "start"]
  /\ calls = [i \in Inv |-> <<>>]
  /\ faults = [i \in Inv |-> {}]
  /\ pdfUrl = [i \in Inv |-> None]
  /\ pageNumber = [i \in Inv |-> None]
  /\ ctx = [i \in Inv |-> "none"]
  /\ viewport = [i \in Inv |-> NoViewport]
  /\ elapsed = [i \in Inv |-> 0]
  /\ frame = [i \in Inv |-> None]
  /\ pending = [i \in Inv |-> NoPending]
  /\ imageUrl = [i \in Inv |-> None]
  /\ posted = [i \in Inv |-> <<>>]
  /\ result = [i \in Inv |-> None]
  /\ summary = [i \in Inv |-> None]
  /\ script = [i \in Inv |-> "none"]
  /\ signal = [i \in Inv |-> FALSE]
  /\ container = [i \in Inv |-> NoContent]
  /\ numPages = [i \in Inv |-> 0]
  /\ native = [i \in Inv |-> <<0, 0>>]
  /\ finalScale = [i \in Inv |-> None]

Init ==
  /\ live = {1}
  /\ \E p \in Props(PipelineCaptions) : props = [i \in Inv |-> IF i = 1 THEN p ELSE IdleProps]
  /\ InitRest

\* ------------------------------------------------------------------------
\* run(): the synchronous checks and the document lookup
\* ------------------------------------------------------------------------

\* A check that lets every sender through.
validateUserPermissionOff(p) == None

\* validateUserPermission(): the error it throws, or None.
validateUserPermission(p) ==
  IF TruthyNum(p.filter_user_id)
  THEN IF p.message.from = None THEN Some(TypeErr)
       ELSE IF p.message.from[1].id /= p.filter_user_id[1] THEN Some(Err(MsgPermission))
       ELSE None
  ELSE None

\* An attachment check that accepts a document of any type.
getFileInfoAnyType(p) ==
  IF p.message.document /= None THEN None ELSE Some(Err(MsgNoPdf))

\* getFileInfo(): the error it throws, or None (the file is message.document).
getFileInfo(p) ==
  IF p.message.document /= None /\ p.message.document[1].mime_type = PDF_MIME
  THEN None
  ELSE Some(Err(MsgNoPdf))

\* A run without catch block: the error leaves run, which returns nothing.
CaughtPropagates(i, e) ==
  /\ pc' = [pc EXCEPT ![i] = "done"]
  /\ result' = [result EXCEPT ![i] = None]
  /\ summary' = [summary EXCEPT ![i] = None]

\* run's catch block.
Caught(i, e) ==
  /\ pc' = [pc EXCEPT ![i] = "done"]
  /\ result' = [result EXCEPT ![i] = Some(ErrorResult(e))]
  /\ summary' = [summary EXCEPT ![i] = Some(ErrorSummary(e))]

\* The record of what the invocation met.
Faults(i, met) == faults' = [faults EXCEPT ![i] = @ \cup met]
Fault(i, name) == Faults(i, {<<name, "raise">>})

\* run() up to its first await: the permission check, the attachment check,
\* and the getFile request of generateFileUrl.
RunStart(i) ==
  /\ pc[i] = "start"
  /\ LET denied == validateUserPermission(props[i])
         nofile == getFileInfo(props[i])
     IN  IF denied /= None
         THEN Caught(i, denied[1]) /\ UNCHANGED calls
         ELSE IF nofile /= None
         THEN Caught(i, nofile[1]) /\ UNCHANGED calls
         ELSE /\ calls' = [calls EXCEPT ![i] = Append(@, Call("getFile", props[i].message.document[1].file_id))]
              /\ pc' = [pc EXCEPT ![i] = "getFile"]
              /\ UNCHANGED <<result, summary>>
  /\ UNCHANGED <<faults, pdfUrl, pageNumber, ctx, viewport, elapsed, frame, pending, imageUrl, posted>>
  /\ UNCHANGED <<inputVars, pageVars>>

\* What a getFile request met: a rejection, an answer without body, an
\* answer without file_path; nothing when the answer carries a path.
GetFileFault(stage, out) ==
  IF ~out.ok THEN {<<stage, "raise">>}
  ELSE IF out.body = None THEN {<<stage, "nobody">>}
  ELSE IF FilePathOf(out.body) = None THEN {<<stage, "nopath">>}
  ELSE {}

\* A lookup that uses the path without testing it.
generateFileUrlUnchecked(out) ==
  IF ~out.ok THEN [ok |-> FALSE, error |-> out.error, url |-> <<>>]
  ELSE IF out.body = None THEN [ok |-> FALSE, error |-> TypeErr, url |-> <<>>]
  ELSE [ok |-> TRUE, error |-> NoError,
        url |-> Trim(FileUrl(IF FilePathOf(out.body) = None THEN <<"undefined">> ELSE FilePathOf(out.body)[1]))]

\* What generateFileUrl does with the outcome of its getFile request:
\* the error thrown, or the URL returned.
generateFileUrl(out) ==
  IF ~out.ok THEN [ok |-> FALSE, error |-> out.error, url |-> <<>>]
  ELSE IF out.body = None THEN [ok |-> FALSE, error |-> TypeErr, url |-> <<>>]
  ELSE IF ~TruthySeq(FilePathOf(out.body))
  THEN [ok |-> FALSE, error |-> Err(MsgNoPath), url |-> <<>>]
  ELSE [ok |-> TRUE, error |-> NoError, url |-> Trim(FileUrl(FilePathOf(out.body)[1]))]

\* The getFile request returns: generateFileUrl ends, parseCaption runs and
\* convertPdfPageToImage asks for a browser.
GetFileReturns(i) ==
  /\ pc[i] = "getFile"
  /\ \E out \in AxiosOutcomes(GetFileBodies(props[i].message.document[1].file_id)) :
       /\ LET r == generateFileUrl(out)
          IN  IF r.ok
              THEN /\ pdfUrl' = [pdfUrl EXCEPT ![i] = Some(r.url)]
                   /\ pageNumber' = [pageNumber EXCEPT ![i] = Some(parseCaption(props[i].message))]
                   /\ calls' = [calls EXCEPT ![i] = Append(@, Call("browser", ""))]
                   /\ pc' = [pc EXCEPT ![i] = "launch"]
                   /\ UNCHANGED <<result, summary>>
              ELSE /\ Caught(i, r.error)
                   /\ UNCHANGED <<pdfUrl, pageNumber, calls>>
       /\ Faults(i, GetFileFault("lookup", out))
  /\ UNCHANGED <<ctx, viewport, elapsed, frame, pending, imageUrl, posted>>
  /\ UNCHANGED <<inputVars, pageVars>>

\* ------------------------------------------------------------------------
\* convertPdfPageToImage
\* ------------------------------------------------------------------------

\* The try block ends by throwing e: the finally block calls browser.close().
Throw(i, e, name) ==
  /\ pending' = [pending EXCEPT ![i] = [kind |-> "throw", error |-> e]]
  /\ pc' = [pc EXCEPT ![i] = "close"]
  /\ Fault(i, name)

\* puppeteer.browser() returns a browser, or rejects (before the try block:
\* there is no browser to close).
BrowserReturns(i) ==
  /\ pc[i] = "launch"
  /\ \E ok \in BOOLEAN :
       IF ok
       THEN /\ ctx' = [ctx EXCEPT ![Browser(i)] = "open"]
            /\ pc' = [pc EXCEPT ![i] = "newPage"]
            /\ UNCHANGED <<faults, result, summary>>
       ELSE /\ Caught(i, BrowserErr)
            /\ Fault(i, "launch")
            /\ UNCHANGED ctx
  /\ UNCHANGED <<calls, pdfUrl, pageNumber, viewport, elapsed, frame, pending, imageUrl, posted>>
  /\ UNCHANGED <<inputVars, pageVars>>

\* browser.newPage() returns and page.setViewport is called, or it rejects.
NewPageReturns(i) ==
  /\ pc[i] = "newPage"
  /\ \E ok \in BOOLEAN :
       IF ok
       THEN pc' = [pc EXCEPT ![i] = "setViewport"] /\ UNCHANGED <<faults, pending>>
       ELSE Throw(i, BrowserErr, "newPage")
  /\ UNCHANGED <<calls, pdfUrl, pageNumber, ctx, viewport, elapsed, frame, imageUrl, posted, result, summary>>
  /\ UNCHANGED <<inputVars, pageVars>>

\* page.setViewport returns and page.setContent(html) is called (the page
\* shows the loading notice and starts its scripts), or it rejects.
SetViewportReturns(i) ==
  /\ pc[i] = "setViewport"
  /\ \E ok \in BOOLEAN :
       IF ok
       THEN /\ viewport' = [viewport EXCEPT ![i] =
                 [width |-> ViewportWidth, height |-> ViewportHeight, deviceScaleFactor |-> DeviceScaleFactor]]
            /\ container' = [container EXCEPT ![i] = LoadingNotice(pageNumber[i][1])]
            /\ script' = [script EXCEPT ![i] = "boot"]
            /\ pc' = [pc EXCEPT ![i] = "setContent"]
            /\ UNCHANGED <<faults, pending>>
       ELSE /\ Throw(i, BrowserErr, "setViewport")
            /\ UNCHANGED <<viewport, container, script>>
  /\ UNCHANGED <<calls, pdfUrl, pageNumber, ctx, elapsed, frame, imageUrl, posted, result, summary>>
  /\ UNCHANGED <<inputVars, signal, numPages, native, finalScale>>

\* page.setContent returns once the page has loaded (its scripts have run up
\* to their first await) and page.waitForFunction is called, or it rejects.
SetContentReturns(i) ==
  /\ pc[i] = "setContent"
  /\ \E ok \in BOOLEAN :
       IF ok
       THEN /\ script[i] /= "boot"
            /\ pc' = [pc EXCEPT ![i] = "wait"]
            /\ elapsed' = [elapsed EXCEPT ![i] = 0]
            /\ UNCHANGED <<faults, pending>>
       ELSE /\ Throw(i, BrowserErr, "setContent")
            /\ UNCHANGED elapsed
  /\ UNCHANGED <<calls, pdfUrl, pageNumber, ctx, viewport, frame, imageUrl, posted, result, summary>>
  /\ UNCHANGED <<inputVars, pageVars>>

\* A wait that swallows its timeout and goes on.
waitForFunctionSwallow(sig, ms) ==
  IF sig \/ ms >= WaitTimeout THEN "resolve" ELSE "pending"

\* page.waitForFunction(() => window.pdfRendered, {timeout: 30000}) after ms
\* milliseconds: it resolves once the flag is set, and rejects when the
\* timeout has passed with the flag not set.
waitForFunction(sig, ms) ==
  IF sig THEN "resolve"
  ELSE IF ms >= WaitTimeout THEN "reject"
  ELSE "pending"

\* Time passes while waitForFunction is pending.
Tick(i) ==
  /\ pc[i] = "wait"
  /\ waitForFunction(signal[i], elapsed[i]) = "pending"
  /\ elapsed' = [elapsed EXCEPT ![i] = @ + PollMs]
  /\ UNCHANGED <<pc, calls, faults, pdfUrl, pageNumber, ctx, viewport, frame, pending, imageUrl, posted, result, summary>>
  /\ UNCHANGED <<inputVars, pageVars>>

\* waitForFunction resolves and page.screenshot is called.
WaitResolves(i) ==
  /\ pc[i] = "wait"
  /\ waitForFunction(signal[i], elapsed[i]) = "resolve"
  /\ pc' = [pc EXCEPT ![i] = "screenshot"]
  /\ elapsed' = [elapsed EXCEPT ![i] = 0]
  /\ UNCHANGED <<calls, faults, pdfUrl, pageNumber, ctx, viewport, frame, pending, imageUrl, posted, result, summary>>
  /\ UNCHANGED <<inputVars, pageVars>>

\* waitForFunction rejects with a TimeoutError.
WaitTimesOut(i) ==
  /\ pc[i] = "wait"
  /\ waitForFunction(signal[i], elapsed[i]) = "reject"
  /\ Throw(i, TimeoutErr, "timeout")
  /\ UNCHANGED <<calls, pdfUrl, pageNumber, ctx, viewport, elapsed, frame, imageUrl, posted, result, summary>>
  /\ UNCHANGED <<inputVars, pageVars>>

\* A renderer that returns without the buffer page.screenshot gave it.
ScreenshotReturnsDropsBuffer(i) ==
  /\ pc[i] = "screenshot"
  /\ \E ok \in BOOLEAN :
       IF ok
       THEN /\ pending' = [pending EXCEPT ![i] = [kind |-> "return", error |-> NoError]]
            /\ pc' = [pc EXCEPT ![i] = "close"]
            /\ UNCHANGED <<faults, frame>>
       ELSE /\ Throw(i, BrowserErr, "screenshot")
            /\ UNCHANGED frame
  /\ UNCHANGED <<calls, pdfUrl, pageNumber, ctx, viewport, elapsed, imageUrl, posted, result, summary>>
  /\ UNCHANGED <<inputVars, pageVars>>

\* page.screenshot returns the image buffer (the try block returns it), or rejects.
ScreenshotReturns(i) ==
  /\ pc[i] = "screenshot"
  /\ \E ok \in BOOLEAN :
       IF ok
       THEN /\ frame' = [frame EXCEPT ![i] = Some(Capture(container[i], viewport[i]))]
            /\ pending' = [pending EXCEPT ![i] = [kind |-> "return", error |-> NoError]]
            /\ pc' = [pc EXCEPT ![i] = "close"]
            /\ UNCHANGED faults
       ELSE /\ Throw(i, BrowserErr, "screenshot")
            /\ UNCHANGED frame
  /\ UNCHANGED <<calls, pdfUrl, pageNumber, ctx, viewport, elapsed, imageUrl, posted, result, summary>>
  /\ UNCHANGED <<inputVars, pageVars>>

\* A finally block that closes the browser only when the try block returned.
FinallyCloseOnReturn(i) == IF pending[i].kind = "return" THEN "closed" ELSE ctx[Browser(i)]

\* A renderer without finally block: the browser is left as it is.
FinallyCloseSkipped(i) == ctx[Browser(i)]

\* The finally block of convertPdfPageToImage: browser.close() has been called.
FinallyClose(i) == "closed"

\* A finally block in which a return overrides the pending throw: whatever
\* the try block did, the upload goes on.
CloseReturnsOverridesThrow(i) ==
  /\ pc[i] = "close"
  /\ ctx' = [ctx EXCEPT ![Browser(i)] = FinallyClose(i)]
  /\ calls' = [calls EXCEPT ![i] = Append(@, Call("sendPhoto", "chat"))]
  /\ pc' = [pc EXCEPT ![i] = "sendPhoto"]
  /\ UNCHANGED <<faults, result, summary>>
  /\ UNCHANGED <<pdfUrl, pageNumber, viewport, elapsed, frame, pending, imageUrl, posted>>
  /\ UNCHANGED <<inputVars, pageVars>>

\* browser.close() returns. It rejects: the rejection is what
\* convertPdfPageToImage throws. It resolves: the pending throw goes on to
\* run's catch block, or the buffer is returned and uploadImageToTelegram
\* sends it with sendPhoto.
CloseReturns(i) ==
  /\ pc[i] = "close"
  /\ ctx' = [ctx EXCEPT ![Browser(i)] = FinallyClose(i)]
  /\ \E ok \in BOOLEAN :
       IF ~ok
       THEN Caught(i, BrowserErr) /\ Fault(i, "close") /\ UNCHANGED calls
       ELSE IF pending[i].kind = "throw"
       THEN Caught(i, pending[i].error) /\ UNCHANGED <<faults, calls>>
       ELSE /\ calls' = [calls EXCEPT ![i] = Append(@, Call("sendPhoto", "chat"))]
            /\ pc' = [pc EXCEPT ![i] = "sendPhoto"]
            /\ UNCHANGED <<faults, result, summary>>
  /\ UNCHANGED <<pdfUrl, pageNumber, viewport, elapsed, frame, pending, imageUrl, posted>>
  /\ UNCHANGED <<inputVars, pageVars>>

\* ------------------------------------------------------------------------
\* uploadImageToTelegram and sendToTrmnl
\* ------------------------------------------------------------------------

\* A catch block that throws the error on.
uploadCatchRethrows(e) == [rethrow |-> TRUE, error |-> e, url |-> <<>>]

\* The catch block of uploadImageToTelegram: the error is logged and the
\* error image's URL is returned.
uploadCatch(e) == [rethrow |-> FALSE, error |-> NoError, url |-> FallbackUrl]

\* sendToTrmnl builds the payload and posts it.
Dispatch(i, url) ==
  /\ imageUrl' = [imageUrl EXCEPT ![i] = Some(url)]
  /\ posted' = [posted EXCEPT ![i] = Append(@, Payload(url))]
  /\ calls' = [calls EXCEPT ![i] = Append(@, Call("post", props[i].plugin_url))]
  /\ pc' = [pc EXCEPT ![i] = "post"]
  /\ UNCHANGED <<result, summary>>

\* A catch block that sends the photo again.
UploadFailsRetries(i, e) ==
  /\ calls' = [calls EXCEPT ![i] = Append(@, Call("sendPhoto", "chat"))]
  /\ pc' = [pc EXCEPT ![i] = "sendPhoto"]
  /\ UNCHANGED <<imageUrl, posted, result, summary>>

\* uploadImageToTelegram ends in its catch block with error e.
UploadFails(i, e) ==
  /\ IF uploadCatch(e).rethrow
     THEN Caught(i, uploadCatch(e).error) /\ UNCHANGED <<imageUrl, posted, calls>>
     ELSE Dispatch(i, uploadCatch(e).url)

\* What the sendPhoto request met: a rejection, an answer without body, an
\* answer without result.photo, an empty photo list; nothing otherwise.
SendPhotoFault(out) ==
  IF ~out.ok THEN {<<"sendPhoto", "raise">>}
  ELSE IF out.body = None THEN {<<"sendPhoto", "nobody">>}
  ELSE IF out.body[1].result = None \/ out.body[1].result[1].photo = None
  THEN {<<"sendPhoto", "nophoto">>}
  ELSE IF Len(out.body[1].result[1].photo[1]) = 0 THEN {<<"sendPhoto", "emptyphoto">>}
  ELSE {}

\* What the try block of uploadImageToTelegram does with the outcome of
\* sendPhoto: the error thrown, or the file id of the largest (last) photo
\* size. An empty photo list is truthy, and its last element is undefined.
afterSendPhoto(out) ==
  IF ~out.ok THEN [ok |-> FALSE, error |-> out.error, file_id |-> ""]
  ELSE IF out.body = None
  THEN [ok |-> FALSE, error |-> TypeErr, file_id |-> ""]
  ELSE IF out.body[1].result = None \/ out.body[1].result[1].photo = None
  THEN [ok |-> FALSE, error |-> Err(MsgNoPhoto), file_id |-> ""]
  ELSE LET photos == out.body[1].result[1].photo[1]
       IN  IF Len(photos) = 0
           THEN [ok |-> FALSE, error |-> TypeErr, file_id |-> ""]
           ELSE [ok |-> TRUE, error |-> NoError, file_id |-> photos[Len(photos)].file_id]

\* sendPhoto returns: the second getFile request is issued, or the upload
\* fails and the dispatcher is called with what the catch block returned.
SendPhotoReturns(i) ==
  /\ pc[i] = "sendPhoto"
  /\ \E out \in AxiosOutcomes(SendPhotoBodies) :
       /\ LET r == afterSendPhoto(out)
          IN  IF r.ok
              THEN /\ calls' = [calls EXCEPT ![i] = Append(@, Call("getFile", r.file_id))]
                   /\ pc' = [pc EXCEPT ![i] = "getFile2"]
                   /\ UNCHANGED <<imageUrl, posted, result, summary>>
              ELSE UploadFails(i, r.error)
       /\ Faults(i, SendPhotoFault(out))
  /\ UNCHANGED <<pdfUrl, pageNumber, ctx, viewport, elapsed, frame, pending>>
  /\ UNCHANGED <<inputVars, pageVars>>

\* A relay lookup that builds the URL from whatever path the answer has.
afterImageLookupUnchecked(out) ==
  IF ~out.ok THEN [ok |-> FALSE, error |-> out.error, url |-> <<>>]
  ELSE IF out.body = None THEN [ok |-> FALSE, error |-> TypeErr, url |-> <<>>]
  ELSE [ok |-> TRUE, error |-> NoError,
        url |-> FileUrl(IF FilePathOf(out.body) = None THEN <<"undefined">> ELSE FilePathOf(out.body)[1])]

\* What the try block of uploadImageToTelegram does with the outcome of its
\* getFile request.
afterImageLookup(out) ==
  IF ~out.ok THEN [ok |-> FALSE, error |-> out.error, url |-> <<>>]
  ELSE IF out.body = None THEN [ok |-> FALSE, error |-> TypeErr, url |-> <<>>]
  ELSE IF ~TruthySeq(FilePathOf(out.body))
  THEN [ok |-> FALSE, error |-> Err(MsgNoImagePath), url |-> <<>>]
  ELSE [ok |-> TRUE, error |-> NoError, url |-> FileUrl(FilePathOf(out.body)[1])]

\* The file id of the getFile request in flight.
LastFileId(i) == calls[i][Len(calls[i])].arg

\* The second getFile request returns: uploadImageToTelegram returns the
\* image's URL (or the catch block's), and the dispatcher is called.
ImageLookupReturns(i) ==
  /\ pc[i] = "getFile2"
  /\ \E out \in AxiosOutcomes(GetFileBodies(LastFileId(i))) :
       /\ LET r == afterImageLookup(out)
          IN  IF r.ok
              THEN Dispatch(i, r.url)
              ELSE UploadFails(i, r.error)
       /\ Faults(i, GetFileFault("getFile2", out))
  /\ UNCHANGED <<pdfUrl, pageNumber, ctx, viewport, elapsed, frame, pending>>
  /\ UNCHANGED <<inputVars, pageVars>>

\* The POST of sendToTrmnl returns. A 2xx answer: run exports the success
\* summary and returns. Anything else: the HTTP client rejects, sendToTrmnl
\* throws it on, and run's catch block takes it.
PostReturns(i) ==
  /\ pc[i] = "post"
  /\ \E out \in AxiosOutcomes(TrmnlBodies) :
       IF out.ok
       THEN /\ summary' = [summary EXCEPT ![i] = Some(SuccessSummary(pageNumber[i][1]))]
            /\ result' = [result EXCEPT ![i] =
                 Some(SuccessResult(posted[i][Len(posted[i])], out.body[1], imageUrl[i][1]))]
            /\ pc' = [pc EXCEPT ![i] = "done"]
            /\ UNCHANGED faults
       ELSE Caught(i, out.error) /\ Fault(i, "post")
  /\ UNCHANGED <<calls, pdfUrl, pageNumber, ctx, viewport, elapsed, frame, pending, imageUrl, posted>>
  /\ UNCHANGED <<inputVars, pageVars>>

\* ------------------------------------------------------------------------
\* The page's script: renderPDF()
\* ------------------------------------------------------------------------

\* Native page sizes <<width, height>> a document of the pipeline may have.
NativeSizes == {<<DimUnit * a, DimUnit * b>> : a \in 1..MaxDim, b \in 1..MaxDim}

\* A catch block that shows the error notice and leaves the flag unset.
ScriptCatchSilent(i, name) ==
  /\ container' = [container EXCEPT ![i] = ErrorNotice(pageNumber[i][1])]
  /\ signal' = signal
  /\ script' = [script EXCEPT ![i] = "done"]
  /\ Fault(i, name)

\* The catch block of renderPDF: the error notice is shown and the flag is set.
ScriptCatch(i, name) ==
  /\ container' = [container EXCEPT ![i] = ErrorNotice(pageNumber[i][1])]
  /\ signal' = [signal EXCEPT ![i] = TRUE]
  /\ script' = [script EXCEPT ![i] = "done"]
  /\ Fault(i, name)

\* The page's scripts start: the PDF library loads and renderPDF() calls
\* getDocument, or the library does not load and renderPDF never runs.
ScriptBoot(i) ==
  /\ ctx[Browser(i)] = "open"
  /\ script[i] = "boot"
  /\ \E ok \in BOOLEAN :
       IF ok
       THEN script' = [script EXCEPT ![i] = "getDocument"] /\ UNCHANGED faults
       ELSE script' = [script EXCEPT ![i] = "dead"] /\ Fault(i, "library")
  /\ UNCHANGED <<pc, calls, pdfUrl, pageNumber, ctx, viewport, elapsed, frame, pending, imageUrl, posted, result, summary>>
  /\ UNCHANGED <<inputVars, signal, container, numPages, native, finalScale>>

\* A script without the page-count check.
pageOutOfRangeNever(n, k) == FALSE

\* if (pageNumber > pdf.numPages)
pageOutOfRange(n, k) == n > k

\* getDocument settles: with k = 0 it rejects; otherwise the document has k
\* pages, and the script shows the "not found" notice and sets the flag, or
\* calls getPage.
DocumentLoaded(i) ==
  /\ ctx[Browser(i)] = "open"
  /\ script[i] = "getDocument"
  /\ \E k \in 0..MaxPages :
       IF k = 0
       THEN ScriptCatch(i, "getDocument") /\ UNCHANGED numPages
       ELSE /\ numPages' = [numPages EXCEPT ![i] = k]
            /\ IF pageOutOfRange(pageNumber[i][1], k)
               THEN /\ container' = [container EXCEPT ![i] = NotFoundNotice(pageNumber[i][1], k)]
                    /\ signal' = [signal EXCEPT ![i] = TRUE]
                    /\ script' = [script EXCEPT ![i] = "done"]
               ELSE /\ script' = [script EXCEPT ![i] = "getPage"]
                    /\ UNCHANGED <<container, signal>>
            /\ UNCHANGED faults
  /\ UNCHANGED <<pc, calls, pdfUrl, pageNumber, ctx, viewport, elapsed, frame, pending, imageUrl, posted, result, summary>>
  /\ UNCHANGED <<inputVars, native, finalScale>>

\* pdf.getPage(n) settles: it rejects for a page number outside 1..numPages
\* (or for a damaged page); otherwise the page has a native size, the scale
\* is calculated, the canvas is sized and page.render is called.
PageLoaded(i) ==
  /\ ctx[Browser(i)] = "open"
  /\ script[i] = "getPage"
  /\ \E ok \in BOOLEAN, size \in NativeSizes :
       IF ~ok \/ pageNumber[i][1] < 1 \/ pageNumber[i][1] > numPages[i]
       THEN ScriptCatch(i, "getPage") /\ UNCHANGED <<native, finalScale>>
       ELSE /\ native' = [native EXCEPT ![i] = size]
            /\ finalScale' = [finalScale EXCEPT ![i] = Some(CalcScale(size))]
            /\ script' = [script EXCEPT ![i] = "render"]
            /\ UNCHANGED <<container, signal, faults>>
  /\ UNCHANGED <<pc, calls, pdfUrl, pageNumber, ctx, viewport, elapsed, frame, pending, imageUrl, posted, result, summary>>
  /\ UNCHANGED <<inputVars, numPages>>

\* page.render settles: the canvas replaces the loading notice and the flag
\* is set, or the catch block runs.
PageRendered(i) ==
  /\ ctx[Browser(i)] = "open"
  /\ script[i] = "render"
  /\ \E ok \in BOOLEAN :
       IF ok
       THEN /\ container' = [container EXCEPT ![i] =
                 Canvas(pageNumber[i][1], numPages[i], CanvasSize(native[i], finalScale[i][1]))]
            /\ signal' = [signal EXCEPT ![i] = TRUE]
            /\ script' = [script EXCEPT ![i] = "done"]
            /\ UNCHANGED faults
       ELSE ScriptCatch(i, "render")
  /\ UNCHANGED <<pc, calls, pdfUrl, pageNumber, ctx, viewport, elapsed, frame, pending, imageUrl, posted, result, summary>>
  /\ UNCHANGED <<inputVars, numPages, native, finalScale>>

\* ------------------------------------------------------------------------
\* The pipeline
\* ------------------------------------------------------------------------

Next ==
  \/ \E i \in live : RunStart(i)
  \/ \E i \in live : GetFileReturns(i)
  \/ \E i \in live : BrowserReturns(i)
  \/ \E i \in live : NewPageReturns(i)
  \/ \E i \in live : SetViewportReturns(i)
  \/ \E i \in live : SetContentReturns(i)
  \/ \E i \in live : Tick(i)
  \/ \E i \in live : WaitResolves(i)
  \/ \E i \in live : WaitTimesOut(i)
  \/ \E i \in live : ScreenshotReturns(i)
  \/ \E i \in live : CloseReturns(i)
  \/ \E i \in live : SendPhotoReturns(i)
  \/ \E i \in live : ImageLookupReturns(i)
  \/ \E i \in live : PostReturns(i)
  \/ \E i \in live : ScriptBoot(i)
  \/ \E i \in live : DocumentLoaded(i)
  \/ \E i \in live : PageLoaded(i)
  \/ \E i \in live : PageRendered(i)

Spec == Init /\ [][Next]_vars

\* Every awaited call on the browser settles (the browser library bounds each
\* with a timeout of its own), and time passes while waitForFunction waits.
\* Nothing is assumed of the page's script, which may never go on.
RenderFairness ==
  \A i \in Inv :
    /\ WF_vars(NewPageReturns(i))
    /\ WF_vars(SetViewportReturns(i))
    /\ WF_vars(SetContentReturns(i))
    /\ WF_vars(Tick(i))
    /\ WF_vars(WaitResolves(i))
    /\ WF_vars(WaitTimesOut(i))
    /\ WF_vars(ScreenshotReturns(i))
    /\ WF_vars(CloseReturns(i))

SpecFair == Init /\ [][Next]_vars /\ RenderFairness

\* ------------------------------------------------------------------------
\* parseCaption on its own, over generated captions
\* ------------------------------------------------------------------------

GenDigits == {"0", "1", "2", "9"}
DigitStrings == UNION {[1..k -> GenDigits] : k \in 0..MaxDigits}
GenPrefixes == { <<>>, <<"x", " ">>, <<"/", "p", "a", "g", "e", " ", "2", " ">> }
GenWords ==
  { <<"/", "p", "a", "g", "e">>, <<"/", "P", "A", "G", "E">>, <<"/", "P", "a", "g", "e">>,
    <<"p", "a", "g", "e">>, <<"/", "p", "a", "g">>, <<"/", "p", "a", "g", "e", "s">> }
GenGaps == { <<>>, <<" ">>, <<" ", "\n">> }
GenSuffixes == { <<>>, <<"x">>, <<" ", "/", "p", "a", "g", "e", " ", "1">> }

GenCaptions ==
  {None} \cup
  { Some(a \o w \o g \o d \o z) :
      a \in GenPrefixes, w \in GenWords, g \in GenGaps, d \in DigitStrings, z \in GenSuffixes }

InitParse ==
  /\ live = {1}
  /\ \E c \in GenCaptions :
       props = [i \in Inv |-> IF i = 1 THEN [IdleProps EXCEPT !.message.caption = c] ELSE IdleProps]
  /\ InitRest

\* const { pageNumber } = this.parseCaption()
ParseStep(i) ==
  /\ pc[i] = "start"
  /\ pageNumber' = [pageNumber EXCEPT ![i] = Some(parseCaption(props[i].message))]
  /\ pc' = [pc EXCEPT ![i] = "parsed"]
  /\ UNCHANGED <<calls, faults, pdfUrl, ctx, viewport, elapsed, frame, pending, imageUrl, posted, result, summary>>
  /\ UNCHANGED <<inputVars, pageVars>>

NextParse == \/ \E i \in live : ParseStep(i)

SpecParse == InitParse /\ [][NextParse]_vars

\* ------------------------------------------------------------------------
\* The scale calculation on its own, over a wider range of page sizes
\* ------------------------------------------------------------------------

WideSizes == {<<WideUnit * a, WideUnit * b>> : a \in 1..MaxWide, b \in 1..MaxWide}

InitScale ==
  /\ live = {1}
  /\ props = [i \in Inv |-> IdleProps]
  /\ artifact = [i \in Inv |-> NoArtifact]
  /\ pc = [i \in Inv |-> "start"]
  /\ calls = [i \in Inv |-> <<>>]
  /\ faults = [i \in Inv |-> {}]
  /\ pdfUrl = [i \in Inv |-> None]
  /\ pageNumber = [i \in Inv |-> Some(1)]
  /\ ctx = [i \in Inv |-> "none"]
  /\ viewport = [i \in Inv |-> NoViewport]
  /\ elapsed = [i \in Inv |-> 0]
  /\ frame = [i \in Inv |-> None]
  /\ pending = [i \in Inv |-> NoPending]
  /\ imageUrl = [i \in Inv |-> None]
  /\ posted = [i \in Inv |-> <<>>]
  /\ result = [i \in Inv |-> None]
  /\ summary = [i \in Inv |-> None]
  /\ script = [i \in Inv |-> IF i = 1 THEN "scale" ELSE "none"]
  /\ signal = [i \in Inv |-> FALSE]
  /\ container = [i \in Inv |-> NoContent]
  /\ numPages = [i \in Inv |-> 1]
  /\ \E size \in WideSizes : native = [i \in Inv |-> IF i = 1 THEN size ELSE <<0, 0>>]
  /\ finalScale = [i \in Inv |-> None]

\* The scale calculation and the sizing of the canvas.
ScaleStep(i) ==
  /\ script[i] = "scale"
  /\ finalScale' = [finalScale EXCEPT ![i] = Some(CalcScale(native[i]))]
  /\ container' = [container EXCEPT ![i] =
       Canvas(pageNumber[i][1], numPages[i], CanvasSize(native[i], CalcScale(native[i])))]
  /\ script' = [script EXCEPT ![i] = "scaled"]
  /\ UNCHANGED <<inputVars, hostVars, signal, numPages, native>>

NextScale == \/ \E i \in live : ScaleStep(i)

SpecScale == InitScale /\ [][NextScale]_vars

\* ------------------------------------------------------------------------
\* sendToTrmnl on its own, over the artifacts it may be handed
\* ------------------------------------------------------------------------

\* The URLs the relay step may return, and the document's URL.
ImageUrls == {FileUrl(FilePath(PhotoIds[k])) : k \in 1..Len(PhotoIds)} \cup {FallbackUrl}
DocumentUrl == Trim(FileUrl(FilePath("doc")))

\* The page numbers a caption of at most MaxDigits digits may ask for.
PageNumbers == 1..(10 ^ MaxDigits - 1)

\* A rendered image, or only a document's URL with the requested page.
Artifacts ==
  {Artifact(Some(u), None, None) : u \in ImageUrls}
    \cup {Artifact(None, Some(DocumentUrl), Some(n)) : n \in PageNumbers}

\* The payload sendToTrmnl builds from its parameter: image_url is the
\* imageUrl property, undefined (here the empty URL) when it is absent.
sendToTrmnl(arg) == Payload(IF arg.imageUrl = None THEN <<>> ELSE arg.imageUrl[1])

InitDispatch ==
  /\ live = {1}
  /\ props = [i \in Inv |-> IdleProps]
  /\ \E a \in Artifacts : artifact = [i \in Inv |-> IF i = 1 THEN a ELSE NoArtifact]
  /\ pc = [i \in Inv |-> IF i = 1 THEN "dispatch" ELSE "start"]
  /\ calls = [i \in Inv |-> <<>>]
  /\ faults = [i \in Inv |-> {}]
  /\ pdfUrl = [i \in Inv |-> None]
  /\ pageNumber = [i \in Inv |-> None]
  /\ ctx = [i \in Inv |-> "none"]
  /\ viewport = [i \in Inv |-> NoViewport]
  /\ elapsed = [i \in Inv |-> 0]
  /\ frame = [i \in Inv |-> None]
  /\ pending = [i \in Inv |-> NoPending]
  /\ imageUrl = [i \in Inv |-> None]
  /\ posted = [i \in Inv |-> <<>>]
  /\ result = [i \in Inv |-> None]
  /\ summary = [i \in Inv |-> None]
  /\ script = [i \in Inv |-> "none"]
  /\ signal = [i \in Inv |-> FALSE]
  /\ container = [i \in Inv |-> NoContent]
  /\ numPages = [i \in Inv |-> 0]
  /\ native = [i \in Inv |-> <<0, 0>>]
  /\ finalScale = [i \in Inv |-> None]

\* sendToTrmnl is called with the artifact: the payload is built and posted.
DispatchStep(i) ==
  /\ pc[i] = "dispatch"
  /\ posted' = [posted EXCEPT ![i] = Append(@, sendToTrmnl(artifact[i]))]
  /\ calls' = [calls EXCEPT ![i] = Append(@, Call("post", props[i].plugin_url))]
  /\ pc' = [pc EXCEPT ![i] = "post"]
  /\ UNCHANGED <<faults, pdfUrl, pageNumber, ctx, viewport, elapsed, frame, pending, imageUrl, result, summary>>
  /\ UNCHANGED <<inputVars, pageVars>>

NextDispatch == \/ \E i \in live : DispatchStep(i)

SpecDispatch == InitDispatch /\ [][NextDispatch]_vars

\* ------------------------------------------------------------------------
\* Two invocations of run, interleaved at their awaits
\* ------------------------------------------------------------------------

\* A PDF message of an allowed sender with the given caption.
PdfProps(caption) ==
  [ filter_user_id |-> Some(111), plugin_url |-> "PLUGIN",
    message |-> [ from |-> Some([id |-> 111]), chat |-> [id |-> 7],
                  document |-> Some([mime_type |-> PDF_MIME, file_id |-> "doc"]),
                  caption |-> caption ] ]

\* Invocation 1 asks for page 2, invocation 2 for page 9.
InitTwo ==
  /\ live = {1, 2}
  /\ props = [i \in Inv |->
       IF i = 1 THEN PdfProps(Some(<<"/", "p", "a", "g", "e", " ", "2">>))
       ELSE PdfProps(Some(<<"/", "P", "A", "G", "E", " ", "9">>))]
  /\ InitRest

\* The steps of the two invocations while they hold a browser: run from its
\* start to the return of convertPdfPageToImage (after which sendPhoto is
\* issued), and the scripts of their pages.
NextTwo ==
  \/ \E i \in live : RunStart(i)
  \/ \E i \in live : GetFileReturns(i)
  \/ \E i \in live : BrowserReturns(i)
  \/ \E i \in live : NewPageReturns(i)
  \/ \E i \in live : SetViewportReturns(i)
  \/ \E i \in live : SetContentReturns(i)
  \/ \E i \in live : Tick(i)
  \/ \E i \in live : WaitResolves(i)
  \/ \E i \in live : WaitTimesOut(i)
  \/ \E i \in live : ScreenshotReturns(i)
  \/ \E i \in live : CloseReturns(i)
  \/ \E i \in live : ScriptBoot(i)
  \/ \E i \in live : DocumentLoaded(i)
  \/ \E i \in live : PageLoaded(i)
  \/ \E i \in live : PageRendered(i)

SpecTwo == InitTwo /\ [][NextTwo]_vars

\* ------------------------------------------------------------------------
\* Properties
\* ------------------------------------------------------------------------

Met(i, stage, kind) == <<stage, kind>> \in faults[i]

\* The error object of the returned result, if any.
HasError(i) == result[i] /= None /\ result[i][1].error /= None
ErrorIs(i, msg) == HasError(i) /\ result[i][1].error[1].message = msg

\* An allow-list identity is configured and the sender's identity is another.
OutsideAllowList(i) ==
  /\ props[i].filter_user_id /= None
  /\ props[i].message.from /= None
  /\ props[i].message.from[1].id /= props[i].filter_user_id[1]

\* C1: when filter_user_id is set and the sender's id differs from it, run
\* rejects the request before any remote call: no call is ever issued (no
\* getFile, no browser, no sendPhoto, no POST), no rendering context exists,
\* and run ends with the permission error.
C1_RejectedBeforeRemoteCalls ==
  \A i \in live :
    OutsideAllowList(i) =>
      /\ calls[i] = <<>>
      /\ ctx[Browser(i)] = "none"
      /\ posted[i] = <<>>
      /\ pc[i] \in {"start", "done"}
      /\ pc[i] = "done" => ErrorIs(i, MsgPermission)

C1_Witness ==
  \E i \in live : OutsideAllowList(i) /\ pc[i] = "done" /\ ErrorIs(i, MsgPermission)

\* The positions of run() after convertPdfPageToImage has ended.
AfterRender == {"sendPhoto", "getFile2", "post", "done"}

\* Once convertPdfPageToImage has ended, by returning the buffer or by
\* throwing, the rendering context it acquired is not open: the context is
\* open only between the browser's launch and close().
ContextClosedOnEveryExit ==
  \A i \in live :
    /\ pc[i] \in AfterRender => ctx[Browser(i)] /= "open"
    /\ ctx[Browser(i)] = "open" => pc[i] \in {"newPage", "setViewport", "setContent", "wait", "screenshot", "close"}
    /\ (pc[i] \in AfterRender /\ pending[i].kind /= "none") => ctx[Browser(i)] = "closed"

\* C2: every invocation of convertPdfPageToImage that acquires a rendering
\* context eventually closes it, on every exit path (normal render,
\* placeholder, timeout of the bounded wait, a rejection of newPage,
\* setViewport, setContent or screenshot), and no state after the
\* invocation's end has the context still open.
C2_ContextEventuallyClosed ==
  /\ []ContextClosedOnEveryExit
  /\ \A i \in Inv : (ctx[Browser(i)] = "open") ~> (ctx[Browser(i)] = "closed")

C2_Witness ==
  \E i \in live : pc[i] = "done" /\ pending[i].kind = "throw" /\ ctx[Browser(i)] = "closed"

\* The relay step met a failure.
RelayFailed(i) ==
  \E f \in faults[i] : f[1] \in {"sendPhoto", "getFile2"}

\* C3: a failure of the relay step (sendPhoto rejecting, an answer without a
\* photo, the second getFile rejecting or answering without file_path) does
\* not abort the pipeline: the dispatcher has been called, once, with a
\* non-empty image URL, and an error in the result can only be the
\* dispatcher's.
C3_RelayFailureAbsorbed ==
  \A i \in live :
    RelayFailed(i) =>
      /\ pc[i] \in {"post", "done"}
      /\ Count(calls[i], "post") = 1
      /\ Len(posted[i]) = 1
      /\ UrlNonEmpty(posted[i][1].merge_variables.image_url)
      /\ imageUrl[i] = Some(posted[i][1].merge_variables.image_url)
      /\ HasError(i) => Met(i, "post", "raise")

C3_Witness ==
  \E i \in live :
    /\ Met(i, "getFile2", "nopath")
    /\ pc[i] = "done"
    /\ ~HasError(i)
    /\ UrlNonEmpty(result[i][1].image_url[1])

\* The requested page lies beyond the loaded document's page count.
BeyondLastPage(i) ==
  numPages[i] > 0 /\ pageNumber[i] /= None /\ pageNumber[i][1] > numPages[i]

\* The rendering context itself failed (or the wait timed out).
ContextFailed(i) ==
  \E f \in faults[i] : f[1] \in {"setContent", "timeout", "screenshot", "close"}

\* C4: for a page number greater than the document's page count K the script
\* takes the placeholder branch and does not raise: the container shows the
\* "not found" notice naming K and the completion flag is set; unless the
\* rendering context itself fails, that notice is the captured frame and the
\* dispatcher is called exactly once.
C4_PlaceholderBeyondLastPage ==
  \A i \in live :
    BeyondLastPage(i) =>
      /\ script[i] = "done"
      /\ signal[i]
      /\ container[i] = NotFoundNotice(pageNumber[i][1], numPages[i])
      /\ container[i].numPages = numPages[i]
      /\ \A f \in faults[i] : f[1] \notin {"getDocument", "getPage", "render"}
      /\ frame[i] /= None => frame[i][1].content = NotFoundNotice(pageNumber[i][1], numPages[i])
      /\ (pc[i] = "done" /\ ~ContextFailed(i)) =>
           /\ frame[i] /= None
           /\ pending[i].kind = "return"
           /\ Count(calls[i], "post") = 1

C4_Witness ==
  \E i \in live :
    /\ BeyondLastPage(i)
    /\ pc[i] = "done"
    /\ frame[i] /= None
    /\ frame[i][1].content.kind = "notfound"
    /\ frame[i][1].content.numPages = numPages[i]
    /\ Count(calls[i], "post") = 1

\* The caption text parseCaption reads.
CaptionText(i) ==
  IF props[i].message.caption = None THEN <<>> ELSE props[i].message.caption[1]

\* The decimal number a digit string writes, position by position.
RECURSIVE DecimalFrom(_, _)
DecimalFrom(ds, k) ==
  IF k > Len(ds) THEN 0
  ELSE DigitVal(ds[k]) * 10 ^ (Len(ds) - k) + DecimalFrom(ds, k + 1)

\* c holds a directive that starts at a: "/page" in any case at a..a+4, white
\* space up to j-1 (at least one character), and the digits j..k, all of them.
DirectiveAt(c, a, j, k) ==
  /\ a >= 1 /\ a + 5 < j /\ j <= k /\ k <= Len(c)
  /\ c[a] = "/"
  /\ <<c[a + 1], c[a + 2], c[a + 3], c[a + 4]>> \in
       {<<p, q, r, t>> : p \in {"p", "P"}, q \in {"a", "A"}, r \in {"g", "G"}, t \in {"e", "E"}}
  /\ \A x \in (a + 5)..(j - 1) : c[x] \in {" ", "\t", "\n", "\r"}
  /\ \A x \in j..k : c[x] \in {"0", "1", "2", "3", "4", "5", "6", "7", "8", "9"}
  /\ k < Len(c) => c[k + 1] \notin {"0", "1", "2", "3", "4", "5", "6", "7", "8", "9"}

HasDirective(c) ==
  \E a \in 1..Len(c), j \in 1..Len(c), k \in 1..Len(c) : DirectiveAt(c, a, j, k)

\* The directive at a is the caption's first.
FirstDirectiveAt(c, a, j, k) ==
  /\ DirectiveAt(c, a, j, k)
  /\ \A b \in 1..(a - 1), m \in 1..Len(c), n \in 1..Len(c) : ~DirectiveAt(c, b, m, n)

\* C5: parseCaption returns N for a caption whose (first) directive is
\* "/page N" in any letter case with N a positive integer, and 1 for a
\* caption without directive, the empty and the absent caption included.
C5_ParsedPageIsDirective ==
  \A i \in live :
    pc[i] = "parsed" =>
      LET c == CaptionText(i)
      IN  /\ \A a \in 1..Len(c), j \in 1..Len(c), k \in 1..Len(c) :
               (FirstDirectiveAt(c, a, j, k) /\ DecimalFrom(SubSeq(c, j, k), 1) >= 1)
                 => pageNumber[i] = Some(DecimalFrom(SubSeq(c, j, k), 1))
          /\ ~HasDirective(c) => pageNumber[i] = Some(1)

C5_Witness ==
  \E i \in live :
    /\ pc[i] = "parsed"
    /\ pageNumber[i] = Some(12)
    /\ \E a \in 1..Len(CaptionText(i)), j \in 1..Len(CaptionText(i)), k \in 1..Len(CaptionText(i)) :
         FirstDirectiveAt(CaptionText(i), a, j, k) /\ CaptionText(i)[a + 1] = "P"

\* C6: the page number parsed from the caption, and handed to the renderer,
\* is at least 1 for every caption ("/page 0" yields the default 1).
C6_PageNumberPositive ==
  \A i \in live : pageNumber[i] /= None => pageNumber[i][1] >= 1

\* C7: finalScale = min(maxWidth / (nativeWidth * baseScale),
\* maxHeight / (nativeHeight * baseScale), 1.2) * baseScale for every native
\* size > 0; the scaled page, and the canvas sized from it, exceed neither
\* maxWidth nor maxHeight; and finalScale <= 1.2 * baseScale.
C7_ScaleFitsTheBox ==
  \A i \in live :
    finalScale[i] /= None =>
      LET s == finalScale[i][1]
          q == RatDiv(s, baseScale)
          fitW == RatDiv(RatOfInt(maxWidth), RatMul(RatOfInt(native[i][1]), baseScale))
          fitH == RatDiv(RatOfInt(maxHeight), RatMul(RatOfInt(native[i][2]), baseScale))
      IN  /\ native[i][1] > 0 /\ native[i][2] > 0
          /\ s[1] > 0 /\ s[2] > 0
          /\ RatLeq(q, fitW) /\ RatLeq(q, fitH) /\ RatLeq(q, scaleCap)
          /\ RatEq(q, fitW) \/ RatEq(q, fitH) \/ RatEq(q, scaleCap)
          /\ s[1] * native[i][1] <= maxWidth * s[2]
          /\ s[1] * native[i][2] <= maxHeight * s[2]
          /\ RatLeq(s, RatMul(scaleCap, baseScale))
          /\ container[i].kind = "canvas" =>
               /\ container[i].width <= maxWidth
               /\ container[i].height <= maxHeight

\* A small page: the cap decides, and the canvas stays inside the box.
C7_Witness ==
  \E i \in live :
    /\ finalScale[i] /= None
    /\ RatEq(finalScale[i][1], RatMul(scaleCap, baseScale))
    /\ container[i].kind = "canvas"
    /\ container[i].width < maxWidth /\ container[i].height < maxHeight

\* C8 as stated: when the webhook answers with a non-success status the
\* dispatcher does not raise, so run goes on to the end of its try block: the
\* result carries the payload sent and the invocation is not reported as an
\* error.
C8_DeliveryFailureDoesNotRaise ==
  \A i \in live :
    (Met(i, "post", "raise") /\ pc[i] = "done") =>
      /\ ~HasError(i)
      /\ result[i][1].sent_payload /= None
      /\ summary[i][1].kind = "success"

\* C8 as amended: when the webhook answers with a non-success status the HTTP
\* client rejects and sendToTrmnl raises; run's catch block takes the error
\* like any other: run returns success = true with the error object and
\* shouldNotify = true, without sent_payload and image_url, exports the error
\* summary, and the POST is not repeated.
C8_DeliveryFailureCaughtByRun ==
  \A i \in live :
    Met(i, "post", "raise") =>
      /\ pc[i] = "done"
      /\ result[i] /= None
      /\ result[i][1].success = TRUE
      /\ HasError(i)
      /\ result[i][1].error[1].message \in {ErrorMessage(e) : e \in AxiosErrors}
      /\ result[i][1].shouldNotify = Some(TRUE)
      /\ result[i][1].sent_payload = None
      /\ result[i][1].image_url = None
      /\ summary[i] /= None /\ summary[i][1].kind = "error"
      /\ Count(calls[i], "post") = 1

C8_Witness ==
  \E i \in live :
    /\ Met(i, "post", "raise")
    /\ pc[i] = "done"
    /\ ErrorIs(i, "Internal Server Error")
    /\ Len(posted[i]) = 1

\* C9: without the completion flag no frame is captured and nothing is
\* uploaded or dispatched; when the flag is not set within the 30 seconds of
\* the bounded wait, the renderer throws the timeout error, the rendering
\* context is closed all the same, and run ends with that error without
\* frame, upload or dispatcher call.
C9_TimeoutAbortsAfterTeardown ==
  \A i \in live :
    /\ ~signal[i] =>
         /\ pc[i] \notin {"screenshot", "sendPhoto", "getFile2", "post"}
         /\ frame[i] = None
         /\ Count(calls[i], "sendPhoto") = 0
         /\ Count(calls[i], "post") = 0
    /\ Met(i, "timeout", "raise") =>
         /\ elapsed[i] >= WaitTimeout
         /\ pc[i] \in {"close", "done"}
         /\ pending[i] = [kind |-> "throw", error |-> TimeoutErr]
         /\ frame[i] = None
         /\ Count(calls[i], "sendPhoto") = 0
         /\ Count(calls[i], "post") = 0
         /\ pc[i] = "done" =>
              /\ ctx[Browser(i)] = "closed"
              /\ HasError(i)
              /\ ~Met(i, "close", "raise") => ErrorIs(i, TimeoutErr.message)

C9_Witness ==
  \E i \in live :
    /\ Met(i, "timeout", "raise")
    /\ ~signal[i]
    /\ pc[i] = "done"
    /\ ctx[Browser(i)] = "closed"
    /\ ErrorIs(i, TimeoutErr.message)

\* C10: when the getFile lookup of the document answers without file_path,
\* generateFileUrl throws and run ends with that error before any rendering:
\* no browser is asked for, no rendering context exists, and there is no
\* upload and no dispatcher call.
C10_NoPathAbortsBeforeRendering ==
  \A i \in live :
    Met(i, "lookup", "nopath") =>
      /\ pc[i] = "done"
      /\ ErrorIs(i, MsgNoPath)
      /\ calls[i] = <<Call("getFile", "doc")>>
      /\ ctx[Browser(i)] = "none"
      /\ script[i] = "none"
      /\ frame[i] = None
      /\ posted[i] = <<>>

C10_Witness ==
  \E i \in live : Met(i, "lookup", "nopath") /\ pc[i] = "done" /\ ErrorIs(i, MsgNoPath)

\* The operations of the remote calls issued so far, in order.
Ops(i) == [k \in 1..Len(calls[i]) |-> calls[i][k].op]

\* The remote calls of a whole run, in order: the document lookup, the
\* browser, the relay's sendPhoto and getFile, the dispatcher's POST.
StepOps == <<"getFile", "browser", "sendPhoto", "getFile", "post">>

\* The same when the relay fails at sendPhoto and goes to the dispatcher.
StepOpsRelayCut == <<"getFile", "browser", "sendPhoto", "post">>

IsPrefix(s, t) == Len(s) <= Len(t) /\ s = SubSeq(t, 1, Len(s))

\* The call an invocation is waiting for at each position, if any.
InFlight(i) ==
  CASE pc[i] = "getFile" -> Some("getFile")
    [] pc[i] = "launch" -> Some("browser")
    [] pc[i] = "sendPhoto" -> Some("sendPhoto")
    [] pc[i] = "getFile2" -> Some("getFile")
    [] pc[i] = "post" -> Some("post")
    [] OTHER -> None

\* C11: the steps of run are strictly ordered, locate, render, relay upload,
\* dispatch: the remote calls are issued in that order, each one after the
\* one before has returned (the call awaited is always the last one issued);
\* the browser is asked for only with the document's URL resolved, sendPhoto
\* is issued only with a frame captured and returned by the renderer, and the
\* POST is issued only with the image URL the relay step returned, which is
\* the URL it carries.
C11_StepsStrictlyOrdered ==
  \A i \in live :
    /\ IsPrefix(Ops(i), StepOps) \/ Ops(i) = StepOpsRelayCut
    /\ InFlight(i) /= None => (calls[i] /= <<>> /\ calls[i][Len(calls[i])].op = InFlight(i)[1])
    /\ Count(calls[i], "browser") > 0 =>
         /\ pdfUrl[i] /= None
         /\ UrlNonEmpty(pdfUrl[i][1])
         /\ pageNumber[i] /= None
    /\ ctx[Browser(i)] /= "none" => Count(calls[i], "browser") = 1
    /\ Count(calls[i], "sendPhoto") > 0 =>
         /\ frame[i] /= None
         /\ pending[i].kind = "return"
         /\ ctx[Browser(i)] = "closed"
    /\ Count(calls[i], "post") > 0 =>
         /\ imageUrl[i] /= None
         /\ posted[i] = <<Payload(imageUrl[i][1])>>
         /\ Count(calls[i], "sendPhoto") = 1
    /\ Count(calls[i], "post") = 0 => (imageUrl[i] = None /\ posted[i] = <<>>)

C11_Witness ==
  \E i \in live : pc[i] = "done" /\ Ops(i) = StepOps /\ ~HasError(i)

\* The message carries no PDF: no document, or one of another MIME type.
NoDocumentFound(i) ==
  props[i].message.document = None \/ props[i].message.document[1].mime_type /= PDF_MIME

\* The document lookup failed (rejected, or answered without file_path).
FileResolutionFailed(i) == \E f \in faults[i] : f[1] = "lookup"

\* The run ended in its catch block: the error summary is exported and the
\* result holds the error object, made of message and timestamp.
EndedWithError(i) ==
  /\ HasError(i)
  /\ DOMAIN result[i][1].error[1] = {"message", "timestamp"}
  /\ summary[i] /= None
  /\ summary[i][1].kind = "error"
  /\ summary[i][1].message = result[i][1].error[1].message
  /\ result[i][1].sent_payload = None
  /\ result[i][1].image_url = None

\* C12: each of the four fatal errors ends the invocation where it arises:
\* the run ends with the error summary exported and an error object (message,
\* timestamp) in its result, no later step runs and the dispatcher is never
\* called. A sender outside the allow-list and a message without PDF abort
\* before any remote call; a failed document lookup aborts with the lookup
\* as the only call; a timeout of the bounded wait aborts, once the browser
\* is closed, with no frame and no call after the browser's.
C12_FatalErrorsAbort ==
  \A i \in live :
    /\ (OutsideAllowList(i) \/ NoDocumentFound(i)) =>
         /\ pc[i] \in {"start", "done"}
         /\ calls[i] = <<>>
         /\ ctx[Browser(i)] = "none"
    /\ (NoDocumentFound(i) /\ validateUserPermission(props[i]) = None /\ pc[i] = "done") =>
         ErrorIs(i, MsgNoPdf)
    /\ FileResolutionFailed(i) =>
         /\ pc[i] = "done"
         /\ Ops(i) = <<"getFile">>
         /\ pdfUrl[i] = None
         /\ ctx[Browser(i)] = "none"
    /\ Met(i, "timeout", "raise") =>
         /\ pc[i] \in {"close", "done"}
         /\ Ops(i) = <<"getFile", "browser">>
         /\ frame[i] = None
         /\ (pc[i] = "done" /\ ~Met(i, "close", "raise")) => ErrorIs(i, ErrorMessage(TimeoutErr))
    /\ (OutsideAllowList(i) \/ NoDocumentFound(i) \/ FileResolutionFailed(i) \/ Met(i, "timeout", "raise")) =>
         /\ posted[i] = <<>>
         /\ imageUrl[i] = None
         /\ Count(calls[i], "post") = 0
         /\ Count(calls[i], "sendPhoto") = 0
         /\ pc[i] = "done" => EndedWithError(i)

C12_Witness ==
  \E i \in live :
    /\ props[i].message.document /= None
    /\ NoDocumentFound(i)
    /\ pc[i] = "done"
    /\ ErrorIs(i, MsgNoPdf)
    /\ EndedWithError(i)
    /\ calls[i] = <<>>

\* The invocation ended before page.screenshot returned a buffer.
AbortedBeforeCapture(i) ==
  \/ OutsideAllowList(i)
  \/ NoDocumentFound(i)
  \/ \E f \in faults[i] :
       f[1] \in {"lookup", "launch", "newPage", "setViewport", "setContent", "timeout", "screenshot"}

\* C13 as stated: every invocation of run has, by the time it completes,
\* captured a frame (the one frame the invocation can hold).
C13_ExactlyOneFramePerRun ==
  \A i \in live : pc[i] = "done" => frame[i] /= None

\* The frames of the invocations: none before the screenshot, one after it.
FrameAccounting ==
  \A i \in live :
    /\ (pc[i] \in AfterRender /\ pending[i].kind = "return") => frame[i] /= None
    /\ Count(calls[i], "sendPhoto") > 0 => frame[i] /= None
    /\ (pc[i] = "done" /\ ~HasError(i)) => frame[i] /= None
    /\ frame[i] /= None => (pc[i] \in {"close"} \cup AfterRender /\ pending[i].kind = "return")
    /\ AbortedBeforeCapture(i) => frame[i] = None
    /\ (pc[i] = "done" /\ frame[i] = None) => (HasError(i) /\ Count(calls[i], "post") = 0)

\* C13 (amended): an invocation captures at most one frame, and a captured
\* frame is never replaced; an invocation whose renderer returned (every one
\* that reaches the relay step, every one that ends without error) has
\* captured exactly one; an invocation that aborts before the capture
\* (permission, no PDF, lookup failure, failure of the browser, timeout of
\* the bounded wait) has captured none and calls no dispatcher.
C13_AtMostOneFramePerRun ==
  /\ []FrameAccounting
  /\ [][\A i \in Inv : frame[i] /= None => frame'[i] = frame[i]]_vars

C13_Witness ==
  \E i \in live : pc[i] = "done" /\ Met(i, "timeout", "raise") /\ frame[i] = None /\ HasError(i)

\* The requested page is one of the loaded document's pages.
PageInRange(i) ==
  numPages[i] > 0 /\ pageNumber[i] /= None /\ pageNumber[i][1] \in 1..numPages[i]

\* The URL the relay step resolves: the file path of the photo the relay's
\* getFile request (the fourth call) asked for.
RelayUrl(i) == FileUrl(FilePath(calls[i][4].arg))

\* C14: when the requested page is within the document's page count and
\* every external call succeeds, the invocation captures one frame, the
\* rendered page, then calls the dispatcher exactly once with the payload
\* {merge_variables: {image_url, file_type: "image"}} whose image_url is the
\* URL the relay step resolved, and returns a result carrying that payload
\* and that URL, without error.
C14_SuccessfulRunDelivers ==
  \A i \in live :
    (PageInRange(i) /\ faults[i] = {}) =>
      /\ frame[i] /= None =>
           /\ frame[i][1].content.kind = "canvas"
           /\ frame[i][1].content.page = pageNumber[i][1]
      /\ pc[i] \in AfterRender => frame[i] /= None
      /\ pc[i] \in {"post", "done"} =>
           /\ Ops(i) = StepOps
           /\ calls[i][4].arg \in {PhotoIds[k] : k \in 1..Len(PhotoIds)}
           /\ posted[i] = << [merge_variables |-> [image_url |-> RelayUrl(i), file_type |-> "image"]] >>
           /\ DOMAIN posted[i][1].merge_variables = {"image_url", "file_type"}
           /\ imageUrl[i] = Some(RelayUrl(i))
      /\ pc[i] = "done" =>
           /\ result[i] /= None
           /\ result[i][1].success
           /\ result[i][1].error = None
           /\ result[i][1].sent_payload = Some(posted[i][1])
           /\ result[i][1].image_url = Some(RelayUrl(i))
           /\ summary[i] = Some(SuccessSummary(pageNumber[i][1]))

C14_Witness ==
  \E i \in live :
    /\ PageInRange(i)
    /\ pageNumber[i][1] = 2
    /\ faults[i] = {}
    /\ pc[i] = "done"
    /\ frame[i] /= None
    /\ result[i][1].sent_payload = Some([merge_variables |-> [image_url |-> RelayUrl(i), file_type |-> "image"]])

\* C15 as stated: the captured image buffer of an in-range page is at most
\* maxWidth (760) pixels wide and maxHeight (440) pixels high.
C15_FrameWithinBox ==
  \A i \in live :
    (frame[i] /= None /\ PageInRange(i) /\ frame[i][1].content.kind = "canvas") =>
      /\ frame[i][1].width <= maxWidth
      /\ frame[i][1].height <= maxHeight

\* C15 (amended): the captured image buffer is the screenshot of the whole
\* viewport, 800x480 CSS pixels at deviceScaleFactor 2, so it is 1600x960
\* pixels whatever the page; it is the canvas drawn inside it that is at
\* most maxWidth (760) by maxHeight (440) CSS pixels for every in-range page
\* of every native size.
C15_FrameIsViewportCanvasWithinBox ==
  \A i \in live :
    frame[i] /= None =>
      /\ frame[i][1].width = ViewportWidth * DeviceScaleFactor
      /\ frame[i][1].height = ViewportHeight * DeviceScaleFactor
      /\ frame[i][1].width = 1600
      /\ frame[i][1].height = 960
      /\ (PageInRange(i) /\ frame[i][1].content.kind = "canvas") =>
           /\ frame[i][1].content.width <= maxWidth
           /\ frame[i][1].content.height <= maxHeight
           /\ frame[i][1].content.width >= 1
           /\ frame[i][1].content.height >= 1

C15_Witness ==
  \E i \in live :
    /\ frame[i] /= None
    /\ PageInRange(i)
    /\ frame[i][1].content.kind = "canvas"
    /\ frame[i][1].content.width = maxWidth
    /\ frame[i][1].width > maxWidth

\* The getFile requests issued for file id f.
Lookups(i, f) == Cardinality({k \in 1..Len(calls[i]) : calls[i][k] = Call("getFile", f)})

\* C16: no step is retried inside one invocation: whatever failures are met,
\* the document lookup, the browser's launch, sendPhoto, the relay's lookup
\* and the POST are each issued at most once, and the payload is sent at
\* most once.
C16_NoStepRetried ==
  \A i \in live :
    /\ props[i].message.document /= None => Lookups(i, props[i].message.document[1].file_id) <= 1
    /\ Count(calls[i], "getFile") <= 2
    /\ Count(calls[i], "getFile") = 2 => Count(calls[i], "sendPhoto") = 1
    /\ Count(calls[i], "browser") <= 1
    /\ Count(calls[i], "sendPhoto") <= 1
    /\ Count(calls[i], "post") <= 1
    /\ Len(posted[i]) <= 1
    /\ Len(posted[i]) = Count(calls[i], "post")

C16_Witness ==
  \E i \in live :
    /\ Met(i, "sendPhoto", "raise")
    /\ Met(i, "post", "raise")
    /\ pc[i] = "done"
    /\ Count(calls[i], "sendPhoto") = 1
    /\ Count(calls[i], "post") = 1

\* Only a document's URL is handed to the dispatcher, not a rendered image.
OnlyDocumentForwarded(i) == artifact[i].imageUrl = None /\ artifact[i].fileUrl /= None

\* C17: the dispatcher chooses the payload's shape by the artifact it is
\* handed: for a document's URL alone it posts {merge_variables: {file_url,
\* file_type: "pdf", file_action}} with file_action the requested page number
\* as a string; for a rendered image it posts {merge_variables: {image_url,
\* file_type: "image"}}.
C17_PayloadShapeByArtifact ==
  \A i \in live :
    pc[i] = "post" =>
      LET mv == posted[i][1].merge_variables
      IN  IF OnlyDocumentForwarded(i)
          THEN /\ DOMAIN mv = {"file_url", "file_type", "file_action"}
               /\ mv.file_url = artifact[i].fileUrl[1]
               /\ mv.file_type = "pdf"
               /\ mv.file_action = ToString(artifact[i].pageNumber[1])
          ELSE /\ DOMAIN mv = {"image_url", "file_type"}
               /\ mv.image_url = artifact[i].imageUrl[1]
               /\ mv.file_type = "image"

\* getDocument, getPage or render rejected inside the page.
ScriptFailed(i) == \E f \in faults[i] : f[1] \in {"getDocument", "getPage", "render"}

\* What holds once the page's script has failed.
ScriptFailureShown ==
  \A i \in live :
    /\ ScriptFailed(i) =>
         /\ script[i] = "done"
         /\ signal[i]
         /\ container[i] = ErrorNotice(pageNumber[i][1])
         /\ frame[i] /= None => frame[i][1].content.kind = "error"
         /\ (pc[i] \in AfterRender /\ ~ContextFailed(i)) =>
              /\ frame[i] /= None
              /\ Count(calls[i], "sendPhoto") = 1
         /\ (pc[i] = "done" /\ ~ContextFailed(i)) =>
              /\ Count(calls[i], "post") = 1
              /\ Len(posted[i]) = 1
              /\ HasError(i) => Met(i, "post", "raise")
    /\ (pageNumber[i] = Some(0) /\ script[i] \in {"render", "done"}) =>
         /\ ScriptFailed(i)
         /\ numPages[i] > 0 => Met(i, "getPage", "raise")

\* C19: a rejection of getDocument, getPage (page number 0 included) or
\* render inside the page is not a fatal error: the script's catch block
\* shows the error notice and sets the completion flag, so that notice is
\* the captured frame and, unless the browser itself fails, sendPhoto and
\* the dispatcher's POST are still issued; and the bounded wait times out
\* only in a state where the flag has not been set.
C19_ScriptFailureNotFatal ==
  /\ []ScriptFailureShown
  /\ [][\A i \in Inv : (Met(i, "timeout", "raise")' /\ ~Met(i, "timeout", "raise")) =>
          (~signal[i] /\ ~signal'[i] /\ elapsed[i] >= WaitTimeout)]_vars

C19_Witness ==
  \E i \in live :
    /\ pageNumber[i] = Some(0)
    /\ Met(i, "getPage", "raise")
    /\ pc[i] = "done"
    /\ frame[i] /= None
    /\ frame[i][1].content.kind = "error"
    /\ Count(calls[i], "post") = 1
    /\ ~HasError(i)

\* No browser is open while the relay's or the dispatcher's request is in
\* flight.
ContextClosedBeforeRelay ==
  \A i \in live :
    pc[i] \in {"sendPhoto", "getFile2", "post"} =>
      /\ ctx[Browser(i)] = "closed"
      /\ frame[i] /= None
      /\ InFlight(i) /= None

\* C20: the rendering context of an invocation is closed before the
\* invocation starts the relay upload: no browser is open while sendPhoto,
\* the relay's getFile or the POST is in flight; and the frame is captured
\* only in a step in which the browser is open, with the completion flag
\* already set.
C20_ContextClosedBeforeRelay ==
  /\ []ContextClosedBeforeRelay
  /\ [][\A i \in Inv : frame'[i] /= frame[i] =>
          (ctx[Browser(i)] = "open" /\ ctx'[Browser(i)] = "open" /\ signal[i] /\ pc[i] = "screenshot")]_vars

C20_Witness ==
  \E i \in live : pc[i] = "sendPhoto" /\ ctx[Browser(i)] = "closed" /\ frame[i] /= None /\ signal[i]

\* Everything one invocation holds: its locals, its browser, its page.
View(i) ==
  << pc[i], calls[i], faults[i], pdfUrl[i], pageNumber[i], ctx[Browser(i)], viewport[i],
     elapsed[i], frame[i], pending[i], imageUrl[i], posted[i], result[i], summary[i],
     script[i], signal[i], container[i], numPages[i], native[i], finalScale[i] >>

\* No two invocations hold the same browser, and what an invocation's page
\* shows and what it captures is its own page request's.
OwnContext ==
  \A i \in live :
    /\ \A j \in live : i /= j => Browser(i) /= Browser(j)
    /\ container[i].kind /= "none" => container[i].page = pageNumber[i][1]
    /\ frame[i] /= None =>
         /\ frame[i][1].content.page = pageNumber[i][1]
         /\ signal[i]
    /\ ctx[Browser(i)] /= "none" => Count(calls[i], "browser") = 1
    /\ signal[i] => script[i] = "done"

\* What holds, up to the return of the renderer, of every invocation that
\* runs alone.
OutcomeAsAlone ==
  /\ ContextClosedOnEveryExit
  /\ C4_PlaceholderBeyondLastPage
  /\ C11_StepsStrictlyOrdered
  /\ C12_FatalErrorsAbort
  /\ FrameAccounting
  /\ C14_SuccessfulRunDelivers
  /\ C16_NoStepRetried
  /\ ScriptFailureShown
  /\ ContextClosedBeforeRelay

\* C18: two invocations interleaved at their awaits share no rendering
\* context and no mutable state: each has a browser of its own, the page and
\* the frame of each show its own page request, every step changes what one
\* invocation holds and leaves the other's locals, browser, flag and frame as
\* they were (closing one browser does not close the other), and each
\* invocation keeps, up to the return of its renderer (the frame captured or
\* the error run ends with), every property it has when it runs alone.
C18_InvocationsIndependent ==
  /\ [](OwnContext /\ OutcomeAsAlone)
  /\ [][\A i \in Inv, j \in Inv : (i /= j /\ View(i)' /= View(i)) => View(j)' = View(j)]_vars

C18_Witness ==
  /\ live = {1, 2}
  /\ pc[1] = "sendPhoto"
  /\ frame[1] /= None
  /\ frame[1][1].content.kind = "canvas"
  /\ ctx[Browser(1)] = "closed"
  /\ pc[2] = "wait"
  /\ ctx[Browser(2)] = "open"
  /\ signal[2]
  /\ container[2].kind = "notfound"
  /\ frame[2] = None

\* A step of run raised: the permission check, the attachment check, the
\* document lookup, the renderer (the browser, the bounded wait) or the
\* dispatcher. What the relay step meets is not raised to run.
StepRaised(i) ==
  \/ validateUserPermission(props[i]) /= None
  \/ getFileInfo(props[i]) /= None
  \/ \E f \in faults[i] :
       f[1] \in {"lookup", "launch", "newPage", "setViewport", "setContent",
                 "timeout", "screenshot", "close", "post"}

\* C21: run never lets an error of a pipeline step reach its caller: every
\* run ends by returning a result with success = true; when a step raised
\* (permission check, attachment check, lookup, renderer, dispatcher) the
\* result holds the error object and shouldNotify = true and neither
\* sent_payload nor image_url, and the error summary is exported; when no
\* step raised it holds sent_payload and image_url and neither error nor
\* shouldNotify.
C21_RunNeverPropagates ==
  \A i \in live :
    /\ StepRaised(i) => pc[i] \in {"start", "close", "done"}
    /\ (StepRaised(i) /\ pc[i] = "close") => pending[i].kind = "throw"
    /\ pc[i] = "done" =>
         /\ result[i] /= None
         /\ summary[i] /= None
         /\ result[i][1].success = TRUE
         /\ HasError(i) <=> StepRaised(i)
         /\ HasError(i) =>
              /\ DOMAIN result[i][1].error[1] = {"message", "timestamp"}
              /\ result[i][1].shouldNotify = Some(TRUE)
              /\ result[i][1].sent_payload = None
              /\ result[i][1].response_from_trmnl = None
              /\ result[i][1].image_url = None
              /\ summary[i][1].kind = "error"
         /\ ~HasError(i) =>
              /\ result[i][1].shouldNotify = None
              /\ result[i][1].sent_payload /= None
              /\ result[i][1].image_url /= None
              /\ summary[i][1].kind = "success"

C21_Witness ==
  \E i \in live :
    /\ Met(i, "screenshot", "raise")
    /\ pc[i] = "done"
    /\ result[i] /= None
    /\ result[i][1].success = TRUE
    /\ ErrorIs(i, ErrorMessage(BrowserErr))
    /\ result[i][1].shouldNotify = Some(TRUE)

\* C22: the image URL handed to the dispatcher is the static fallback URL if
\* and only if the relay step failed (sendPhoto rejected or answered without
\* a usable photo list, the relay's getFile rejected or answered without
\* file_path); otherwise it is the URL built from the file path resolved for
\* the photo the relay looked up, the last of the returned list. Either way
\* it is the URL the payload carries, and when the dispatcher succeeds run
\* exports the success summary and returns that URL as image_url.
C22_FallbackIffRelayFailed ==
  \A i \in live :
    /\ \A n \in 1..MaxPhotos :
         LET out == [ok |-> TRUE, error |-> NoError,
                     body |-> Some([result |-> Some([photo |-> Some(PhotoList(n))])])]
         IN  /\ out \in AxiosOutcomes(SendPhotoBodies)
             /\ afterSendPhoto(out).ok
             /\ afterSendPhoto(out).file_id = PhotoList(n)[n].file_id
    /\ RelayFailed(i) => Count(calls[i], "post") = 1
    /\ Count(calls[i], "post") > 0 =>
         /\ imageUrl[i] /= None
         /\ posted[i] = << [merge_variables |-> [image_url |-> imageUrl[i][1], file_type |-> "image"]] >>
         /\ (imageUrl[i][1] = <<FALLBACK_IMAGE>>) <=> RelayFailed(i)
         /\ ~RelayFailed(i) =>
              /\ Ops(i) = StepOps
              /\ calls[i][4].arg \in {PhotoIds[k] : k \in 1..MaxPhotos}
              /\ imageUrl[i][1] = <<TELEGRAM_API_BASE, "/file/bot", Token, "/">> \o FilePath(calls[i][4].arg)
         /\ (pc[i] = "done" /\ ~Met(i, "post", "raise")) =>
              /\ ~HasError(i)
              /\ summary[i] = Some(SuccessSummary(pageNumber[i][1]))
              /\ result[i][1].image_url = imageUrl[i]
              /\ result[i][1].sent_payload = Some(posted[i][1])

C22_Witness ==
  \E i \in live :
    /\ Met(i, "sendPhoto", "nophoto")
    /\ pc[i] = "done"
    /\ ~HasError(i)
    /\ result[i][1].image_url = Some(<<FALLBACK_IMAGE>>)
    /\ summary[i][1].kind = "success"

====
